---- MODULE Spec2Model ----
(***************************************************************************)
(* Model of frontend/app.js: the price feed of the stock widget.           *)
(*                                                                         *)
(* State: the module-level variables of app.js (latestPrices, chart,       *)
(* chartSymbol, chartHistory, usingMockFeed) and the parts of the page the *)
(* handlers write (status pill, table rows, recent-alert list), plus the   *)
(* handlers that have been registered (socket listeners, interval timers). *)
(*                                                                         *)
(* One action per handler: DOMContentLoaded, the four socket listeners,    *)
(* the interval callback of the mock feed and the row click handler.       *)
(*                                                                         *)
(* Numbers.  Prices are JavaScript numbers; the model counts them in half  *)
(* units (200 stands for 100.0, 3 for 1.5), so every comparison of the     *)
(* code (>= 1.5, max(1, ..)) is exact on the values the model draws.       *)
(* The values undefined and NaN are modelled by two sentinels with         *)
(* JavaScript's arithmetic (every operation on them yields NaN, every      *)
(* comparison with them is false).  percentChange is a fraction.           *)
(*                                                                         *)
(* Page.  The elements the script looks up (status pill, table body,       *)
(* alert container, symbol label) are present, as in the page the script   *)
(* ships with; the Chart library may be missing (initChart returns early). *)
(*                                                                         *)
(* Transport.  The socket is an event target: the script never removes a   *)
(* listener and never closes the socket, so the model lets every listener  *)
(* run whenever the transport dispatches its event, in any order.          *)
(***************************************************************************)
EXTENDS Integers, Sequences, FiniteSets, TLC

VARIABLES
    pc,             \* "init" before DOMContentLoaded, "running" after
    socket,         \* TRUE when new WebSocket succeeded and listeners are registered
    sockets,        \* number of WebSocket objects constructed, each with its listeners
    usingMockFeed,  \* app.js:45
    wsStatus,       \* state shown by the status pill: "initial", "connected", "error"
    timers,         \* number of setInterval timers created by startMockFeed
    latestPrices,   \* app.js:41, a function from the keys present to the stored item
    chart,          \* app.js:42, TRUE when the Chart object exists
    chartSymbol,    \* app.js:43
    chartHistory,   \* app.js:44, sequence of [ts, price]
    rows,           \* symbols that have a row (with a click handler) in the table
    recentAlerts,   \* children of the recent-alert container, first child first
    now,            \* clock read by new Date() in the mock feed; counts ticks
    msgs,           \* number of socket messages delivered
    last,           \* the handler that ran last and its input
    threw,          \* TRUE when the handler that ran last ended with an uncaught error
    fired,          \* addRecentAlert calls of the handler that ran last, in call order
    charted,        \* what updateChart did in that handler: "none", "push", "shift"
    signals,        \* error and close events dispatched so far: 0, 1, or 2 for more
    lateOpen        \* an open event has been dispatched after an error or close

vars == <<pc, socket, sockets, usingMockFeed, wsStatus, timers, latestPrices, chart,
          chartSymbol, chartHistory, rows, recentAlerts, now, msgs, last, threw,
          fired, charted, signals, lateOpen>>

\* The variables of the program and of the page (everything but the observers).
prog == <<socket, sockets, usingMockFeed, wsStatus, timers, latestPrices, chart,
          chartSymbol, chartHistory, rows, recentAlerts>>

-----------------------------------------------------------------------------
\* Bounds of the model.

MaxMsgs == 1        \* socket messages delivered in one run of Spec
MaxTicks == 1       \* interval callbacks run
MaxLiveMsgs == 2    \* socket messages delivered in one run of SpecLive
MaxTimers == 2      \* interval timers created
MaxChartMsgs == 22  \* socket messages delivered in one run of SpecChart
MaxSockets == 2     \* WebSocket objects constructed in one run of SpecRestart

-----------------------------------------------------------------------------
\* Program constants.

TRACKED_SYMBOLS == <<"AAPL", "TSLA", "NVDA", "MSFT">>

Tracked == {TRACKED_SYMBOLS[i] : i \in 1..Len(TRACKED_SYMBOLS)}

AlertThreshold == 3     \* 1.5, in half units
HistoryCap == 20        \* points kept in chartHistory
AlertsCap == 6          \* children kept in the recent-alert container
PriceFloor == 2         \* Math.max(1, ..), in half units
SeedBase == 200         \* 100, in half units
SeedStep == 100         \* 50, in half units
Percent == 100          \* factor of percentChange

\* delta = (Math.random() - 0.5) * 4 lies in [-2, 2): -4 .. 3 in half units.
Deltas == -4..3

\* The draws of one tick, one delta per symbol: every symbol falls by 2, or
\* AAPL +1.5, TSLA -2, NVDA +0.5, MSFT -1.5.
DeltaVectors ==
    {[s \in Tracked |-> -4],
     [s \in Tracked |-> IF s = "AAPL" THEN 3 ELSE IF s = "TSLA" THEN -4
                        ELSE IF s = "NVDA" THEN 1 ELSE -3]}

-----------------------------------------------------------------------------
\* JavaScript values and arithmetic.

\* Sentinels outside the range of every number the model computes.
Undefined == 0 - 9998
NaN == 0 - 9999

IsNum(x) == x # Undefined /\ x # NaN

JsAdd(a, b) == IF IsNum(a) /\ IsNum(b) THEN a + b ELSE NaN
JsSub(a, b) == IF IsNum(a) /\ IsNum(b) THEN a - b ELSE NaN
JsAbs(x) == IF IsNum(x) THEN (IF x < 0 THEN -x ELSE x) ELSE NaN
JsMax(a, b) == IF IsNum(a) /\ IsNum(b) THEN (IF a >= b THEN a ELSE b) ELSE NaN
JsGE(a, b) == IsNum(a) /\ IsNum(b) /\ a >= b
JsGT(a, b) == IsNum(a) /\ IsNum(b) /\ a > b

RECURSIVE Gcd(_, _)
Gcd(a, b) == IF b = 0 THEN a ELSE Gcd(b, a % b)

Abs(x) == IF x < 0 THEN -x ELSE x

\* A number n/d in lowest terms, d > 0.
Frac(n, d) ==
    LET g == Gcd(Abs(n), Abs(d))
        s == IF d < 0 THEN -1 ELSE 1
    IN  [num |-> (s * n) \div g, den |-> (s * d) \div g]

PctUndefined == [num |-> 0, den |-> -1]
PctNaN == [num |-> 0, den |-> 0]

\* (change / prev.price) * 100
JsPct(change, prevPrice) ==
    IF ~IsNum(change) \/ ~IsNum(prevPrice) THEN PctNaN
    ELSE IF prevPrice = 0
         THEN [num |-> IF change > 0 THEN 1 ELSE IF change < 0 THEN -1 ELSE 0, den |-> 0]
         ELSE Frac(change * Percent, prevPrice)

-----------------------------------------------------------------------------
\* Stored items and payloads.

NoSymbol == "undefined"     \* the key JavaScript uses for item.symbol === undefined

Quote(s, p, c, pct, t) ==
    [symbol |-> s, price |-> p, change |-> c, percentChange |-> pct, ts |-> t]

\* The entry null of a data array.
NullItem == Quote("null", Undefined, Undefined, PctUndefined, Undefined)

Put(lp, k, item) == [x \in DOMAIN lp \cup {k} |-> IF x = k THEN item ELSE lp[x]]

Empty == [x \in {} |-> NullItem]

Alert(s, dir, p) == [symbol |-> s, direction |-> dir, price |-> p]

-----------------------------------------------------------------------------
\* Payloads of the message event (event.data after JSON.parse).
\*   kind      "unparseable": JSON.parse throws; "null": parses to null;
\*             "scalar": parses to a number, string or boolean; "object"
\*   type      msg.type
\*   dataKind  "missing": no data field; "nonseq": data is not an array; "seq"
\*   data      the entries of msg.data

Msg(id, kind, type, dataKind, data) ==
    [id |-> id, kind |-> kind, type |-> type, dataKind |-> dataKind, data |-> data]

PriceUpdate(id, data) == Msg(id, "object", "price_update", "seq", data)

Zero == [num |-> 0, den |-> 1]

QAapl100 == Quote("AAPL", 200, 0, Zero, 1)
QAapl101h == Quote("AAPL", 203, 3, Frac(3, 2), 2)
QAapl101 == Quote("AAPL", 202, 2, Frac(1, 1), 2)
QTsla150 == Quote("TSLA", 300, 0, Zero, 1)
QTsla1h == Quote("TSLA", 3, -297, Frac(-99, 1), 2)
QNvda200 == Quote("NVDA", 400, 0, Zero, 1)
QMsft250 == Quote("MSFT", 500, 0, Zero, 1)
QGoog == Quote("GOOG", 600, 0, Zero, 1)
QNoSymbol == Quote(NoSymbol, 200, 0, Zero, 1)
QNoFields == Quote("TSLA", Undefined, Undefined, PctUndefined, Undefined)

MalformedPayloads == {
    Msg("notjson", "unparseable", "", "missing", <<>>),
    Msg("null", "null", "", "missing", <<>>),
    Msg("scalar", "scalar", "", "missing", <<>>),
    Msg("ping", "object", "ping", "missing", <<>>),
    Msg("nodata", "object", "price_update", "missing", <<>>),
    Msg("nonseq", "object", "price_update", "nonseq", <<>>),
    PriceUpdate("nofields", <<QNoFields>>),
    PriceUpdate("nosymbol", <<QNoSymbol>>),
    PriceUpdate("nullentry", <<QAapl101, NullItem>>) }

QuotePayloads == {
    PriceUpdate("empty", <<>>),
    PriceUpdate("aapl100", <<QAapl100>>),
    PriceUpdate("aapl101h", <<QAapl101h>>),
    PriceUpdate("aapl101", <<QAapl101>>),
    PriceUpdate("tsla150", <<QTsla150>>),
    PriceUpdate("all", <<QAapl100, QTsla1h, QNvda200, QMsft250>>),
    PriceUpdate("dup", <<QAapl100, QAapl101h>>),
    PriceUpdate("goog", <<QGoog>>) }

Payloads == MalformedPayloads \cup QuotePayloads

\* The payloads of the runs that also fall back to the mock feed.
FeedPayloads == {p \in Payloads : p.id \in {"aapl100", "aapl101h", "all"}}

PayloadOf(id) == CHOOSE p \in Payloads : p.id = id

-----------------------------------------------------------------------------
\* addRecentAlert: prepend, then drop last children while more than 6.

\* Mutant of DropLast: the first child is removed instead of the last.
RECURSIVE DropFirst(_, _)
DropFirst(list, cap) ==
    IF Len(list) > cap THEN DropFirst(Tail(list), cap) ELSE list

RECURSIVE DropLast(_, _)
DropLast(list, cap) ==
    IF Len(list) > cap THEN DropLast(SubSeq(list, 1, Len(list) - 1), cap) ELSE list

addRecentAlert(list, a) == DropLast(<<a>> \o list, AlertsCap)

RECURSIVE AddAll(_, _)
AddAll(list, as) ==
    IF as = <<>> THEN list ELSE AddAll(addRecentAlert(list, Head(as)), Tail(as))

-----------------------------------------------------------------------------
\* renderStocksTable: the rows rebuilt, and whether toFixed threw on the way.
\* toFixed exists on every number (NaN included) and on no undefined value.

CanFix(x) == x # Undefined

RECURSIVE RenderRows(_, _, _)
RenderRows(i, lp, done) ==
    IF i > Len(TRACKED_SYMBOLS) THEN [rows |-> done, threw |-> FALSE]
    ELSE LET sym == TRACKED_SYMBOLS[i] IN
         IF sym \notin DOMAIN lp THEN RenderRows(i + 1, lp, done)
         ELSE IF CanFix(lp[sym].price) /\ CanFix(lp[sym].change)
                   /\ lp[sym].percentChange # PctUndefined
              THEN RenderRows(i + 1, lp, done \cup {sym})
              ELSE [rows |-> done, threw |-> TRUE]

renderStocksTable(lp) == RenderRows(1, lp, {})

-----------------------------------------------------------------------------
\* updateChart: push the stored item of symbol, shift when longer than 20.

Point(item) == [ts |-> item.ts, price |-> item.price]

\* Mutant of Shift: the newest point is dropped instead of the oldest.
ShiftNewest(h) == IF Len(h) > HistoryCap THEN SubSeq(h, 1, Len(h) - 1) ELSE h

Shift(h) == IF Len(h) > HistoryCap THEN Tail(h) ELSE h

\* Observer: what updateChart does to a history h.
ChartOp(h, lp, symbol, hasChart) ==
    IF ~hasChart \/ symbol \notin DOMAIN lp THEN "none"
    ELSE IF Len(h) + 1 > HistoryCap THEN "shift" ELSE "push"

\* Mutant of updateChart: the point is taken from the first tracked symbol,
\* whatever symbol is asked for.
updateChartFirstTracked(h, lp, symbol, hasChart) ==
    IF ~hasChart THEN h
    ELSE IF TRACKED_SYMBOLS[1] \notin DOMAIN lp THEN h
    ELSE Shift(Append(h, Point(lp[TRACKED_SYMBOLS[1]])))

updateChart(h, lp, symbol, hasChart) ==
    IF ~hasChart THEN h
    ELSE IF symbol \notin DOMAIN lp THEN h
    ELSE Shift(Append(h, Point(lp[symbol])))

-----------------------------------------------------------------------------
\* The forEach of the message listener (app.js:361-372).

\* Mutant of LiveAlert: the threshold is compared with > instead of >=.
LiveAlertStrict(prev, item) ==
    IF JsGT(JsAbs(JsSub(item.price, prev.price)), AlertThreshold)
    THEN <<Alert(item.symbol, IF JsGT(item.price, prev.price) THEN "up" ELSE "down",
                 item.price)>>
    ELSE <<>>

LiveAlert(prev, item) ==
    IF JsGE(JsAbs(JsSub(item.price, prev.price)), AlertThreshold)
    THEN <<Alert(item.symbol, IF JsGT(item.price, prev.price) THEN "up" ELSE "down",
                 item.price)>>
    ELSE <<>>

\* The keys a message may write: the listener stores under every item.symbol.
StoreKey(item) == item.symbol

\* Mutant of ForEachItem: the entries are visited last to first.
RECURSIVE ForEachItemReversed(_, _, _)
ForEachItemReversed(items, lp, alerts) ==
    IF items = <<>> THEN [lp |-> lp, fired |-> alerts, threw |-> FALSE]
    ELSE LET item == items[Len(items)] IN
         IF item = NullItem
         THEN [lp |-> lp, fired |-> alerts, threw |-> TRUE]
         ELSE LET k == StoreKey(item)
                  al == IF k \in DOMAIN lp THEN LiveAlert(lp[k], item) ELSE <<>>
              IN  ForEachItemReversed(SubSeq(items, 1, Len(items) - 1),
                                      Put(lp, k, item), alerts \o al)

RECURSIVE ForEachItem(_, _, _)
ForEachItem(items, lp, alerts) ==
    IF items = <<>> THEN [lp |-> lp, fired |-> alerts, threw |-> FALSE]
    ELSE LET item == Head(items) IN
         IF item = NullItem
         THEN [lp |-> lp, fired |-> alerts, threw |-> TRUE]
         ELSE LET k == StoreKey(item)
                  al == IF k \in DOMAIN lp THEN LiveAlert(lp[k], item) ELSE <<>>
              IN  ForEachItem(Tail(items), Put(lp, k, item), alerts \o al)

-----------------------------------------------------------------------------
\* The forEach of the interval callback (app.js:416-434).  dv gives the delta
\* drawn for each symbol, t the time read before the loop.

TickQuote(prev, sym, d, t) ==
    LET newPrice == JsMax(PriceFloor, JsAdd(prev.price, d))
        change == JsSub(newPrice, prev.price)
    IN  Quote(sym, newPrice, change, JsPct(change, prev.price), t)

TickAlert(q) ==
    IF JsGE(JsAbs(q.change), AlertThreshold)
    THEN <<Alert(q.symbol, IF JsGT(q.change, 0) THEN "up" ELSE "down", q.price)>>
    ELSE <<>>

RECURSIVE ForEachSymbol(_, _, _, _, _)
ForEachSymbol(i, lp, alerts, dv, t) ==
    IF i > Len(TRACKED_SYMBOLS) THEN [lp |-> lp, fired |-> alerts, threw |-> FALSE]
    ELSE LET sym == TRACKED_SYMBOLS[i] IN
         IF sym \notin DOMAIN lp
         THEN [lp |-> lp, fired |-> alerts, threw |-> TRUE]
         ELSE LET q == TickQuote(lp[sym], sym, dv[sym], t)
              IN  ForEachSymbol(i + 1, Put(lp, sym, q), alerts \o TickAlert(q), dv, t)

\* Mutant of Seed: the per-index offset idx * 50 is missing.
SeedFlat(t) == [s \in Tracked |-> Quote(s, SeedBase, 0, Zero, t)]

\* The seed of startMockFeed (app.js:400-408).
Seed(t) ==
    [s \in Tracked |->
        LET idx == CHOOSE i \in 1..Len(TRACKED_SYMBOLS) : TRACKED_SYMBOLS[i] = s
        IN  Quote(s, SeedBase + (idx - 1) * SeedStep, 0, Zero, t)]

\* The interval ids the program keeps after setInterval returns: the call at
\* app.js:413 is an expression statement, its return value is dropped, and no
\* clearInterval or socket.close() occurs in the file. Timers are numbered
\* 1..timers in creation order.
RetainedHandles == {}

-----------------------------------------------------------------------------
\* The handlers.

Ev(ev, arg) == [ev |-> ev, arg |-> arg]

Init ==
    /\ pc = "init"
    /\ socket = FALSE
    /\ sockets = 0
    /\ usingMockFeed = FALSE
    /\ wsStatus = "initial"
    /\ timers = 0
    /\ latestPrices = Empty
    /\ chart = FALSE
    /\ chartSymbol = "AAPL"
    /\ chartHistory = <<>>
    /\ rows = {}
    /\ recentAlerts = <<>>
    /\ now = 0
    /\ msgs = 0
    /\ last = Ev("init", "")
    /\ threw = FALSE
    /\ fired = <<>>
    /\ charted = "none"
    /\ signals = 0
    /\ lateOpen = FALSE

\* startMockFeed (app.js:394-439); hasChart is the value of chart when it runs.
startMockFeed(hasChart) ==
    /\ usingMockFeed' = TRUE
    /\ wsStatus' = "error"
    /\ IF DOMAIN latestPrices = {}
       THEN /\ latestPrices' = Seed(now)
            /\ rows' = renderStocksTable(Seed(now)).rows
            /\ chartHistory' = updateChart(chartHistory, Seed(now), chartSymbol, hasChart)
            /\ charted' = ChartOp(chartHistory, Seed(now), chartSymbol, hasChart)
       ELSE /\ UNCHANGED <<latestPrices, rows, chartHistory>>
            /\ charted' = "none"
    /\ timers' = timers + 1

\* The DOMContentLoaded listener (app.js:473-487): initChart, then
\* connectWebSocket, whose constructor call succeeds or throws.
Startup ==
    /\ pc = "init"
    /\ pc' = "running"
    /\ \E hasChart \in BOOLEAN, constructed \in BOOLEAN :
         /\ chart' = hasChart
         /\ socket' = constructed
         /\ sockets' = IF constructed THEN 1 ELSE 0
         /\ IF constructed
            THEN /\ UNCHANGED <<usingMockFeed, wsStatus, latestPrices, rows,
                                chartHistory, timers>>
                 /\ charted' = "none"
            ELSE startMockFeed(hasChart)
    /\ last' = Ev("startup", "")
    /\ threw' = FALSE
    /\ fired' = <<>>
    /\ UNCHANGED <<chartSymbol, recentAlerts, now, msgs, signals, lateOpen>>

\* A further call of connectWebSocket (app.js:342-388) after the one of the
\* DOMContentLoaded listener. The function is a global of the page; it tests
\* no flag before it constructs the socket and registers the listeners.
ConnectAgain ==
    /\ pc = "running"
    /\ \E constructed \in BOOLEAN :
         IF constructed
         THEN /\ socket' = TRUE
              /\ sockets' = sockets + 1
              /\ UNCHANGED <<usingMockFeed, wsStatus, latestPrices, rows,
                             chartHistory, timers>>
              /\ charted' = "none"
         ELSE /\ startMockFeed(chart)
              /\ UNCHANGED <<socket, sockets>>
    /\ last' = Ev("connect", "")
    /\ threw' = FALSE
    /\ fired' = <<>>
    /\ UNCHANGED <<pc, chart, chartSymbol, recentAlerts, now, msgs, signals, lateOpen>>

\* The open listener (app.js:346-349).
SocketOpen ==
    /\ pc = "running"
    /\ socket
    /\ usingMockFeed' = FALSE
    /\ wsStatus' = "connected"
    /\ last' = Ev("open", "")
    /\ threw' = FALSE
    /\ fired' = <<>>
    /\ charted' = "none"
    /\ lateOpen' = (lateOpen \/ signals > 0)
    /\ UNCHANGED <<pc, socket, sockets, timers, latestPrices, chart, chartSymbol, chartHistory,
                   rows, recentAlerts, now, msgs, signals>>

\* What the message listener (app.js:351-376) does with payload p in a state
\* with quote map lp, history h and table rows rs.
OnMessage(p, lp, h, rs, symbol, hasChart) ==
    LET same == [lp |-> lp, hist |-> h, rows |-> rs, fired |-> <<>>, threw |-> FALSE,
                 charted |-> "none"]
    IN  IF p.kind = "unparseable" THEN same
        ELSE IF p.kind = "null" THEN [same EXCEPT !.threw = TRUE]
        ELSE IF p.kind = "scalar" \/ p.type # "price_update" THEN same
        ELSE IF p.dataKind # "seq" THEN [same EXCEPT !.threw = TRUE]
        ELSE LET r == ForEachItem(p.data, lp, <<>>)
                 rr == renderStocksTable(r.lp)
             IN  IF r.threw
                 THEN [lp |-> r.lp, hist |-> h, rows |-> rs, fired |-> r.fired,
                       threw |-> TRUE, charted |-> "none"]
                 ELSE IF rr.threw
                 THEN [lp |-> r.lp, hist |-> h, rows |-> rr.rows, fired |-> r.fired,
                       threw |-> TRUE, charted |-> "none"]
                 ELSE [lp |-> r.lp, hist |-> updateChart(h, r.lp, symbol, hasChart),
                       rows |-> rr.rows, fired |-> r.fired, threw |-> FALSE,
                       charted |-> ChartOp(h, r.lp, symbol, hasChart)]

SocketMessage(p) ==
    /\ pc = "running"
    /\ socket
    /\ LET r == OnMessage(p, latestPrices, chartHistory, rows, chartSymbol, chart)
       IN  /\ latestPrices' = r.lp
           /\ chartHistory' = r.hist
           /\ rows' = r.rows
           /\ fired' = r.fired
           /\ threw' = r.threw
           /\ charted' = r.charted
           /\ recentAlerts' = AddAll(recentAlerts, r.fired)
    /\ msgs' = msgs + 1
    /\ last' = Ev("message", p.id)
    /\ UNCHANGED <<pc, socket, sockets, usingMockFeed, wsStatus, timers, chart, chartSymbol,
                   now, signals, lateOpen>>

\* Mutant of FallBack: the guard on usingMockFeed is missing.
FallBackUnguarded == startMockFeed(chart)

\* The body shared by the close and error listeners: if (!usingMockFeed) startMockFeed().
FallBack ==
    IF ~usingMockFeed
    THEN startMockFeed(chart)
    ELSE /\ UNCHANGED <<usingMockFeed, wsStatus, latestPrices, rows, chartHistory,
                        timers>>
         /\ charted' = "none"

Signalled == IF signals < 2 THEN signals + 1 ELSE signals

\* The close listener (app.js:378-380).
SocketClose ==
    /\ pc = "running"
    /\ socket
    /\ FallBack
    /\ last' = Ev("close", "")
    /\ threw' = FALSE
    /\ fired' = <<>>
    /\ signals' = Signalled
    /\ UNCHANGED <<pc, socket, sockets, chart, chartSymbol, recentAlerts, now, msgs, lateOpen>>

\* The error listener (app.js:382-384).
SocketError ==
    /\ pc = "running"
    /\ socket
    /\ FallBack
    /\ last' = Ev("error", "")
    /\ threw' = FALSE
    /\ fired' = <<>>
    /\ signals' = Signalled
    /\ UNCHANGED <<pc, socket, sockets, chart, chartSymbol, recentAlerts, now, msgs, lateOpen>>

\* What one run of the interval callback (app.js:413-438) does, with the
\* deltas dv drawn by Math.random and the time t.
OnTick(dv, t, lp, h, rs, symbol, hasChart) ==
    LET r == ForEachSymbol(1, lp, <<>>, dv, t)
        rr == renderStocksTable(r.lp)
    IN  IF r.threw
        THEN [lp |-> r.lp, hist |-> h, rows |-> rs, fired |-> r.fired, threw |-> TRUE,
              charted |-> "none"]
        ELSE IF rr.threw
        THEN [lp |-> r.lp, hist |-> h, rows |-> rr.rows, fired |-> r.fired,
              threw |-> TRUE, charted |-> "none"]
        ELSE [lp |-> r.lp, hist |-> updateChart(h, r.lp, symbol, hasChart),
              rows |-> rr.rows, fired |-> r.fired, threw |-> FALSE,
              charted |-> ChartOp(h, r.lp, symbol, hasChart)]

Tick(dv) ==
    /\ pc = "running"
    /\ timers >= 1
    /\ now' = now + 1
    /\ LET r == OnTick(dv, now + 1, latestPrices, chartHistory, rows, chartSymbol, chart)
       IN  /\ latestPrices' = r.lp
           /\ chartHistory' = r.hist
           /\ rows' = r.rows
           /\ fired' = r.fired
           /\ threw' = r.threw
           /\ charted' = r.charted
           /\ recentAlerts' = AddAll(recentAlerts, r.fired)
    /\ last' = Ev("tick", "")
    /\ UNCHANGED <<pc, socket, sockets, usingMockFeed, wsStatus, timers, chart, chartSymbol,
                   msgs, signals, lateOpen>>

\* Mutant of OnSelect: chartHistory is not reset before the chart is updated.
OnSelectNoReset(symbol, lp, hasChart) ==
    LET rr == renderStocksTable(lp)
    IN  IF rr.threw
        THEN [hist |-> chartHistory, rows |-> rr.rows, threw |-> TRUE,
              charted |-> "none"]
        ELSE [hist |-> updateChart(chartHistory, lp, symbol, hasChart),
              rows |-> rr.rows, threw |-> FALSE,
              charted |-> ChartOp(chartHistory, lp, symbol, hasChart)]

\* What the click listener of a row (app.js:165-171) leaves in chartHistory.
OnSelect(symbol, lp, hasChart) ==
    LET rr == renderStocksTable(lp)
    IN  IF rr.threw
        THEN [hist |-> <<>>, rows |-> rr.rows, threw |-> TRUE, charted |-> "none"]
        ELSE [hist |-> updateChart(<<>>, lp, symbol, hasChart), rows |-> rr.rows,
              threw |-> FALSE, charted |-> ChartOp(<<>>, lp, symbol, hasChart)]

SelectSymbol(symbol) ==
    /\ pc = "running"
    /\ symbol \in rows
    /\ chartSymbol' = symbol
    /\ LET r == OnSelect(symbol, latestPrices, chart)
       IN  /\ chartHistory' = r.hist
           /\ rows' = r.rows
           /\ threw' = r.threw
           /\ charted' = r.charted
    /\ last' = Ev("select", symbol)
    /\ fired' = <<>>
    /\ UNCHANGED <<pc, socket, sockets, usingMockFeed, wsStatus, timers, latestPrices, chart,
                   recentAlerts, now, msgs, signals, lateOpen>>

-----------------------------------------------------------------------------
\* Specifications.

\* The feed with its fallback: every handler.
Next ==
    \/ Startup
    \/ SocketOpen
    \/ \E p \in FeedPayloads : msgs < MaxMsgs /\ SocketMessage(p)
    \/ (usingMockFeed \/ timers < MaxTimers) /\ SocketClose
    \/ (usingMockFeed \/ timers < MaxTimers) /\ SocketError
    \/ \E dv \in DeltaVectors : now < MaxTicks /\ Tick(dv)
    \/ \E s \in Tracked : SelectSymbol(s)

Spec == Init /\ [][Next]_vars

\* The live feed alone, with every payload.
NextLive ==
    \/ Startup
    \/ SocketOpen
    \/ \E p \in Payloads : msgs < MaxLiveMsgs /\ SocketMessage(p)
    \/ \E s \in Tracked : SelectSymbol(s)

SpecLive == Init /\ [][NextLive]_vars

\* A long live feed whose quotes arrive in the order of their timestamps.
ChartPayloads == {p \in Payloads : p.id \in {"aapl100", "aapl101h", "tsla150"}}

InTimeOrder(p, lp) ==
    \A i \in 1..Len(p.data) : \A k \in DOMAIN lp : p.data[i].ts >= lp[k].ts

NextChart ==
    \/ Startup
    \/ SocketOpen
    \/ \E p \in ChartPayloads :
         msgs < MaxChartMsgs /\ InTimeOrder(p, latestPrices) /\ SocketMessage(p)
    \/ \E s \in Tracked : SelectSymbol(s)

SpecChart == Init /\ [][NextChart]_vars

\* The page with connectWebSocket called again after startup.
NextRestart ==
    \/ Startup
    \/ sockets < MaxSockets /\ timers < MaxTimers /\ ConnectAgain
    \/ SocketOpen
    \/ (usingMockFeed \/ timers < MaxTimers) /\ SocketClose
    \/ (usingMockFeed \/ timers < MaxTimers) /\ SocketError
    \/ \E dv \in DeltaVectors : now < MaxTicks /\ Tick(dv)

SpecRestart == Init /\ [][NextRestart]_vars

\* A live feed that delivers well-formed and incomplete entries, closes, and
\* is followed by the mock feed.
DegradedPayloads == {p \in Payloads : p.id \in {"aapl100", "aapl101h", "all", "nofields"}}

NextDegraded ==
    \/ Startup
    \/ \E p \in DegradedPayloads :
           ~usingMockFeed /\ msgs < MaxLiveMsgs /\ SocketMessage(p)
    \/ ~usingMockFeed /\ SocketClose
    \/ ~usingMockFeed /\ SocketError
    \/ \E dv \in DeltaVectors : now < MaxTicks /\ Tick(dv)

SpecDegraded == Init /\ [][NextDegraded]_vars

-----------------------------------------------------------------------------
\* Properties.

\* C1: for one connection attempt whose open event, if any, comes before every
\* error and close event, startMockFeed runs at most once, and exactly once as
\* soon as an error or close event has been dispatched (one timer, status
\* "error", usingMockFeed set); an error or close event dispatched while
\* usingMockFeed is set changes nothing of the program or the page.
C1_OnceState ==
    /\ ~lateOpen => timers <= 1
    /\ (signals > 0 /\ ~lateOpen) =>
           (timers = 1 /\ usingMockFeed /\ wsStatus = "error")

C1_FallbackOnce ==
    [][/\ C1_OnceState'
       /\ (usingMockFeed /\ last'.ev \in {"close", "error"}) => UNCHANGED prog]_vars

\* Witness of C1: a second error or close event has been dispatched after the
\* fallback, with no open event in between, and one timer exists.
C1_Witness ==
    signals = 2 /\ ~lateOpen /\ last.ev = "error" /\ timers = 1 /\ usingMockFeed

\* C2: every tick ends without an uncaught error and leaves a quote stamped by
\* that tick for every tracked symbol.
C2_TickReplacesAll ==
    last.ev = "tick" =>
        /\ ~threw
        /\ \A s \in Tracked : s \in DOMAIN latestPrices /\ latestPrices[s].ts = now

\* C3: the keys of latestPrices are tracked symbols.
C3_KeysTracked == DOMAIN latestPrices \subseteq Tracked

\* C4: exactly one source is active; in particular, once startMockFeed has run,
\* the open and message listeners of the socket change neither latestPrices nor
\* chartHistory nor the connection state.
C4_SocketSilentAfterFallback ==
    [][(timers >= 1 /\ last'.ev \in {"open", "message"}) =>
           UNCHANGED <<latestPrices, chartHistory, usingMockFeed, wsStatus>>]_vars

\* C5: once startMockFeed has run, usingMockFeed stays set and the status never
\* shows "connected" again.
C5_FallbackTerminal ==
    [][timers >= 1 => (usingMockFeed' /\ wsStatus' # "connected")]_vars

\* C6: a message or a tick calls addRecentAlert for a key exactly when a quote
\* was stored for the key before, and the new price differs from the stored
\* one by at least 1.5; it does so once, with direction "up" iff the new price
\* is greater, and with the new price.  (Every message of Spec holds at most
\* one entry per symbol.)
C6_Moved(k) ==
    /\ k \in DOMAIN latestPrices
    /\ IsNum(latestPrices[k].price) /\ IsNum(latestPrices'[k].price)
    /\ \/ latestPrices'[k].price - latestPrices[k].price >= AlertThreshold
       \/ latestPrices[k].price - latestPrices'[k].price >= AlertThreshold

C6_AlertRule ==
    [][last'.ev \in {"message", "tick"} =>
        /\ \A k \in DOMAIN latestPrices' :
             LET hits == {i \in 1..Len(fired') : fired'[i].symbol = k}
             IN  /\ Cardinality(hits) = IF C6_Moved(k) THEN 1 ELSE 0
                 /\ \A i \in hits :
                      /\ fired'[i].price = latestPrices'[k].price
                      /\ fired'[i].direction =
                           IF latestPrices'[k].price > latestPrices[k].price
                           THEN "up" ELSE "down"
        /\ \A i \in 1..Len(fired') : fired'[i].symbol \in DOMAIN latestPrices']_vars

\* Witness of C6: a message has just raised a "down" alert.
C6_Witness ==
    last.ev = "message" /\ Len(fired) = 1 /\ fired[1].direction = "down"

\* C7: chartHistory never holds more than 20 points; a handler that pushes a
\* point (any but the click handler, which empties the buffer first) appends
\* it at the end, and when the buffer was full it removes the first (oldest)
\* point and keeps the others in order.
C7_HistoryFifo ==
    [][/\ Len(chartHistory') <= HistoryCap
       /\ (charted' # "none" /\ last'.ev # "select") =>
            LET pt == Point(latestPrices'[chartSymbol])
            IN  chartHistory' =
                    IF Len(chartHistory) = HistoryCap
                    THEN Tail(chartHistory) \o <<pt>>
                    ELSE chartHistory \o <<pt>>]_vars

\* Witness of C7: a push has just evicted a point from a full buffer whose
\* oldest and newest points differ.
C7_Witness ==
    /\ charted = "shift"
    /\ Len(chartHistory) = HistoryCap
    /\ chartHistory[1] # chartHistory[HistoryCap]

\* C8: a malformed message is dropped silently: no uncaught error, no change of
\* latestPrices or chartHistory, no alert.
Malformed == {p.id : p \in MalformedPayloads}

C8_MalformedDropped ==
    [][(last'.ev = "message" /\ last'.arg \in Malformed) =>
           /\ ~threw'
           /\ fired' = <<>>
           /\ UNCHANGED <<latestPrices, chartHistory>>]_vars

\* C9: a message that holds no entry for chartSymbol leaves chartHistory
\* unchanged (a tick holds a quote for every tracked symbol).
Carries(p, symbol) == \E i \in 1..Len(p.data) : p.data[i].symbol = symbol

C9_HistoryOnlyForSelected ==
    [][(last'.ev = "message" /\ ~Carries(PayloadOf(last'.arg), chartSymbol)) =>
           chartHistory' = chartHistory]_vars

C11_TickDerived ==
    [][last'.ev = "tick" =>
        \A s \in Tracked \cap DOMAIN latestPrices :
            latestPrices'[s] # latestPrices[s] =>
                LET q == latestPrices'[s]
                    prev == latestPrices[s]
                IN  /\ IsNum(q.price) /\ q.price >= PriceFloor
                    /\ q.change = q.price - prev.price
                    /\ q.percentChange.num * prev.price
                           = q.change * 100 * q.percentChange.den]_vars

\* C12: a step that starts the mock feed (it creates a timer) on an empty
\* quote map stores, for the i-th tracked symbol (from 0), price 100 + 50 * i
\* (200 + 100 * i half units), change 0 and percentChange 0, all prices
\* distinct; on a non-empty quote map it leaves the map unchanged.
C12_SeedOrKeep ==
    [][timers' = timers + 1 =>
        IF DOMAIN latestPrices = {}
        THEN /\ DOMAIN latestPrices' = Tracked
             /\ \A i \in 1..Len(TRACKED_SYMBOLS) :
                    LET q == latestPrices'[TRACKED_SYMBOLS[i]]
                    IN  /\ q.symbol = TRACKED_SYMBOLS[i]
                        /\ q.price = 200 + 100 * (i - 1)
                        /\ q.change = 0
                        /\ q.percentChange = Zero
             /\ \A a, b \in Tracked :
                    a # b => latestPrices'[a].price # latestPrices'[b].price
        ELSE latestPrices' = latestPrices]_vars

\* C12 witness: the mock feed has just started on an empty map and seeded it.
C12_Witness ==
    /\ last.ev \in {"close", "error", "startup"}
    /\ timers = 1
    /\ msgs = 0
    /\ latestPrices["AAPL"].price = 200
    /\ latestPrices["MSFT"].price = 500
    /\ latestPrices["MSFT"].change = 0

\* C13: every tick timer the program has created can be cancelled, that is,
\* its interval id is among the handles the program retained; this is what a
\* stop operation needs in order to silence the mock feed.
C13_TimersCancellable == \A id \in 1..timers : id \in RetainedHandles

\* C14: a call of connectWebSocket made after the feed was started changes
\* nothing: no further socket, no further listeners, no further timer, and
\* the status, the quote map and the history as they were.
C14_ConnectIdempotent == [][last'.ev = "connect" => UNCHANGED prog]_vars

\* C15: whenever a step stores a new quote for a symbol, the quote's change is
\* its price minus the price of the quote stored for the symbol before the
\* step and its percentChange is change / previous price * 100; a symbol's
\* first quote has change 0 and percentChange 0.
C15_DerivedFromPrevious ==
    [][\A s \in DOMAIN latestPrices' :
          LET q == latestPrices'[s] IN
          IF s \in DOMAIN latestPrices
          THEN q # latestPrices[s] =>
                   /\ q.change = q.price - latestPrices[s].price
                   /\ q.percentChange.num * latestPrices[s].price
                          = q.change * 100 * q.percentChange.den
          ELSE q.change = 0 /\ q.percentChange = Zero]_vars

\* C16: when a click selects another symbol, every point recorded for the
\* symbol selected before is still held in the state afterwards.
C16_OldHistoryRetained ==
    [][(last'.ev = "select" /\ chartSymbol' # chartSymbol) =>
          \A i \in 1..Len(chartHistory) :
              \E j \in 1..Len(chartHistory') : chartHistory'[j] = chartHistory[i]]_vars

\* C17: the entries of a price_update message are handled one after the
\* other in the given order, up to the first entry that is null.  The quote
\* an entry is compared with is the nearest earlier entry of the same message
\* for its symbol, or else the quote stored before the message; the alerts
\* raised come in entry order; the quote stored for a symbol at the end is the
\* last entry given for it; and the message just delivered is the only one
\* applied by the step.
C17_Data == PayloadOf(last'.arg).data

C17_Handled ==
    IF \E i \in 1..Len(C17_Data) : C17_Data[i] = NullItem
    THEN (CHOOSE i \in 1..Len(C17_Data) :
              /\ C17_Data[i] = NullItem
              /\ \A j \in 1..(i - 1) : C17_Data[j] # NullItem) - 1
    ELSE Len(C17_Data)

C17_Earlier(i) == {j \in 1..(i - 1) : C17_Data[j].symbol = C17_Data[i].symbol}

C17_HasPrev(i) == C17_Earlier(i) # {} \/ C17_Data[i].symbol \in DOMAIN latestPrices

C17_Prev(i) ==
    IF C17_Earlier(i) # {}
    THEN C17_Data[CHOOSE j \in C17_Earlier(i) : \A m \in C17_Earlier(i) : m <= j]
    ELSE latestPrices[C17_Data[i].symbol]

C17_Alerts(i) ==
    LET item == C17_Data[i] IN
    IF /\ C17_HasPrev(i)
       /\ IsNum(item.price)
       /\ IsNum(C17_Prev(i).price)
       /\ \/ item.price - C17_Prev(i).price >= 3
          \/ C17_Prev(i).price - item.price >= 3
    THEN <<[symbol |-> item.symbol,
            direction |-> IF item.price > C17_Prev(i).price THEN "up" ELSE "down",
            price |-> item.price]>>
    ELSE <<>>

RECURSIVE C17_AlertsUpTo(_)
C17_AlertsUpTo(n) == IF n = 0 THEN <<>> ELSE C17_AlertsUpTo(n - 1) \o C17_Alerts(n)

C17_EntriesInOrder ==
    [][(/\ last'.ev = "message"
        /\ PayloadOf(last'.arg).kind = "object"
        /\ PayloadOf(last'.arg).type = "price_update"
        /\ PayloadOf(last'.arg).dataKind = "seq") =>
          /\ fired' = C17_AlertsUpTo(C17_Handled)
          /\ msgs' = msgs + 1
          /\ \A k \in DOMAIN latestPrices' :
                LET given == {i \in 1..C17_Handled : C17_Data[i].symbol = k} IN
                IF given # {}
                THEN latestPrices'[k]
                         = C17_Data[CHOOSE i \in given : \A m \in given : m <= i]
                ELSE k \in DOMAIN latestPrices /\ latestPrices'[k] = latestPrices[k]]_vars

\* C17 witness: AAPL stood at 101.5; a message with the entries AAPL 100 and
\* AAPL 101.5 raised a down alert for the first and an up alert for the second.
C17_Witness ==
    /\ last.ev = "message"
    /\ last.arg = "dup"
    /\ fired = <<Alert("AAPL", "down", 200), Alert("AAPL", "up", 203)>>
    /\ latestPrices["AAPL"] = QAapl101h

\* C18: the recent-alert list never holds more than 6 alerts, and after every
\* step it is the newest 6 (or fewer) of: the alerts the step raised, newest
\* first, followed by the list as it was.  By induction the list is always
\* the 6 most recently raised alerts, newest first.
C18_Newest(all) == SubSeq(all, 1, IF Len(all) < 6 THEN Len(all) ELSE 6)

C18_SixNewestFirst ==
    [][/\ Len(recentAlerts') <= 6
       /\ recentAlerts' =
              C18_Newest([i \in 1..Len(fired') |-> fired'[Len(fired') + 1 - i]]
                             \o recentAlerts)]_vars

\* C18 witness: a tick raised four alerts and a message then raised four
\* more; the list holds the four of the message, newest first, and then the
\* two newest of the tick.
C18_Witness ==
    /\ last.ev = "message"
    /\ Len(fired) = 4
    /\ Len(recentAlerts) = 6
    /\ recentAlerts[1] = fired[4]
    /\ recentAlerts[4] = fired[1]
    /\ recentAlerts[5] = Alert("MSFT", "down", 496)
    /\ recentAlerts[6] = Alert("NVDA", "down", 396)

\* C19: every point the history holds after a step was either held before the
\* step with the same symbol selected, or is the point (ts, price) of the
\* quote stored for the selected symbol at the end of the step.  Hence every
\* point was recorded for the selected symbol, and after a change of
\* selection no point of the symbol selected before is left.
C19_PointsOfSelected ==
    [][\A j \in 1..Len(chartHistory') :
          \/ /\ chartSymbol' = chartSymbol
             /\ \E i \in 1..Len(chartHistory) : chartHistory[i] = chartHistory'[j]
          \/ /\ chartSymbol' \in DOMAIN latestPrices'
             /\ chartHistory'[j].ts = latestPrices'[chartSymbol'].ts
             /\ chartHistory'[j].price = latestPrices'[chartSymbol'].price]_vars

\* C19 witness: TSLA is selected while AAPL has a stored quote too, a message
\* has just been handled, and the history holds two points, both TSLA's.
C19_Witness ==
    /\ last.ev = "message"
    /\ chartSymbol = "TSLA"
    /\ "AAPL" \in DOMAIN latestPrices
    /\ Len(chartHistory) = 2
    /\ \A i \in 1..2 : chartHistory[i] = [ts |-> 1, price |-> 300]

====
